---------------------------- MODULE Spec2Model ----------------------------
(***************************************************************************)
(* A model of the finance tracker of src/src/main.rs: the FinanceTracker   *)
(* ledger (transactions, category_totals, unique_categories, next_id), its *)
(* aggregate queries, the text conversions, and the interactive loop of    *)
(* main() with the prompts of add_transaction_interactive().               *)
(*                                                                         *)
(* Strings are sequences of one-character strings, so that trim(),         *)
(* to_lowercase() and parse::<f64>() are computed character by character.  *)
(* Amounts are f64 values; the inputs of the model are decimal integers of *)
(* small magnitude, on which f64 addition and subtraction are exact, so an *)
(* amount is modelled by the integer it denotes.  A quotient of two f64 is *)
(* modelled by the ratio [num, den].                                       *)
(***************************************************************************)
EXTENDS Integers, Sequences, FiniteSets, TLC

VARIABLES
    transactions,       \* FinanceTracker.transactions : Vec<Transaction>
    category_totals,    \* FinanceTracker.category_totals : HashMap<String, f64>
    unique_categories,  \* FinanceTracker.unique_categories : HashSet<String>
    next_id,            \* FinanceTracker.next_id : u32
    pc,                 \* where main() is blocked on stdin, or how it ended
    input,              \* the value the last get_user_input() returned
    description,        \* locals of add_transaction_interactive()
    amount,
    is_recurring,
    date,
    transaction_type,
    overflow_checks     \* build profile: TRUE = debug (overflow panics),
                        \* FALSE = release (overflow wraps)

tracker == <<transactions, category_totals, unique_categories, next_id>>
locals == <<description, amount, is_recurring, date, transaction_type>>
vars == <<transactions, category_totals, unique_categories, next_id, pc, input,
          description, amount, is_recurring, date, transaction_type,
          overflow_checks>>

---------------------------------------------------------------------------
(* Bounds of the model *)

\* The number of transactions a run records.
MaxTx == 4

\* The largest value of the id counter.  The code's counter is a u32; the
\* model keeps the wrap-around arithmetic and scales the width down so that
\* the largest value is within MaxTx insertions.
U32_MAX == 2

---------------------------------------------------------------------------
(* Strings *)

income_lit == <<"i", "n", "c", "o", "m", "e">>
expense_lit == <<"e", "x", "p", "e", "n", "s", "e">>

\* char::to_lowercase on the letters the inputs use
to_lowercase_char(c) ==
    CASE c = "I" -> "i" [] c = "N" -> "n" [] c = "C" -> "c" [] c = "O" -> "o"
      [] c = "M" -> "m" [] c = "E" -> "e" [] c = "X" -> "x" [] c = "P" -> "p"
      [] c = "S" -> "s" [] c = "Y" -> "y"
      [] OTHER -> c

to_lowercase(s) == [i \in 1..Len(s) |-> to_lowercase_char(s[i])]

is_whitespace(c) == c \in {" ", "\t", "\n", "\r"}

RECURSIVE trim_start(_)
trim_start(s) ==
    IF s # <<>> /\ is_whitespace(Head(s)) THEN trim_start(Tail(s)) ELSE s

RECURSIVE trim_end(_)
trim_end(s) ==
    IF s # <<>> /\ is_whitespace(s[Len(s)])
    THEN trim_end(SubSeq(s, 1, Len(s) - 1))
    ELSE s

trim(s) == trim_end(trim_start(s))

\* get_user_input: the line read from stdin, trimmed
get_user_input(line) == trim(line)


---------------------------------------------------------------------------
(* Text conversions *)

\* A conversion that compares the text as typed, without to_lowercase;
\* KindOfTextIsCaseInsensitive tells it from the conversion of the code.
TransactionType_from_as_typed(s) ==
    IF s = income_lit THEN "Income" ELSE "Expense"

\* impl From<&str> for TransactionType
TransactionType_from(s) ==
    LET l == to_lowercase(s) IN
    IF l = income_lit THEN "Income"
    ELSE IF l = expense_lit THEN "Expense"
    ELSE "Expense"

\* parse_bool
parse_bool(s) ==
    LET l == to_lowercase(s) IN
    IF l = <<"y", "e", "s">> \/ l = <<"y">> THEN TRUE ELSE FALSE

Digits == {"0", "1", "2", "3", "4", "5", "6", "7", "8", "9"}

digit_value(c) ==
    CASE c = "0" -> 0 [] c = "1" -> 1 [] c = "2" -> 2 [] c = "3" -> 3
      [] c = "4" -> 4 [] c = "5" -> 5 [] c = "6" -> 6 [] c = "7" -> 7
      [] c = "8" -> 8 [] c = "9" -> 9

RECURSIVE decimal_value(_)
decimal_value(s) ==
    IF s = <<>> THEN 0
    ELSE 10 * decimal_value(SubSeq(s, 1, Len(s) - 1)) + digit_value(s[Len(s)])

all_digits(s) == \A i \in 1..Len(s) : s[i] \in Digits

\* parse_amount: str::parse::<f64>.  The grammar is an optional sign, then
\* digits with an optional '.', with at least one digit.  The exponent
\* form and the words inf, infinity, nan, and a nonzero fraction, are
\* outside the inputs of the model.
parse_amount(s) ==
    LET signed == s # <<>> /\ Head(s) \in {"+", "-"}
        body == IF signed THEN Tail(s) ELSE s
        dots == {i \in 1..Len(body) : body[i] = "."}
        dot == IF dots = {} THEN Len(body) + 1 ELSE CHOOSE i \in dots : \A j \in dots : i <= j
        int_part == SubSeq(body, 1, dot - 1)
        frac_part == SubSeq(body, dot + 1, Len(body))
        ok == /\ all_digits(int_part)
              /\ all_digits(frac_part)
              /\ Len(int_part) + Len(frac_part) >= 1
        magnitude == decimal_value(int_part)
    IN  IF ok
        THEN [ok |-> TRUE,
              value |-> IF signed /\ Head(s) = "-" THEN 0 - magnitude ELSE magnitude]
        ELSE [ok |-> FALSE, value |-> 0]

---------------------------------------------------------------------------
(* FinanceTracker *)

Transaction(id_, description_, amount_, is_recurring_, date_, type_, category_) ==
    [id |-> id_, description |-> description_, amount |-> amount_,
     is_recurring |-> is_recurring_, date |-> date_,
     transaction_type |-> type_, category |-> category_]

\* An insertion at the front of the list; LedgerIsAppendOnly tells it from
\* Vec::push.
push_front(v, t) == <<t>> \o v

\* Vec::push
push(v, t) == Append(v, t)

\* HashMap::insert in place of the entry update: the amount replaces the
\* running total; CategoryTotalsAreSums tells it from the code.
insert_amount(totals, category_, amount_) ==
    [c \in DOMAIN totals \cup {category_} |->
        IF c = category_ THEN amount_ ELSE totals[c]]

\* category_totals.entry(category).and_modify(|total| *total += amount)
\*                                .or_insert(amount)
entry_and_modify_or_insert(totals, category_, amount_) ==
    IF category_ \in DOMAIN totals
    THEN [totals EXCEPT ![category_] = @ + amount_]
    ELSE totals @@ (category_ :> amount_)

\* HashSet::insert
insert(set, category_) == set \cup {category_}

\* self.next_id += 1 on a u32: the sum when it fits; at the largest value a
\* build with overflow checks panics and a build without them wraps to 0.
add_assign_1(n, checks) ==
    IF n < U32_MAX THEN [panic |-> FALSE, value |-> n + 1]
    ELSE IF checks THEN [panic |-> TRUE, value |-> n]
    ELSE [panic |-> FALSE, value |-> 0]

\* Iterator::sum over f64, a left fold
RECURSIVE sum(_)
sum(s) ==
    IF s = <<>> THEN 0
    ELSE sum(SubSeq(s, 1, Len(s) - 1)) + s[Len(s)]

amounts(ts) == [i \in 1..Len(ts) |-> ts[i].amount]

is_income(t) == t.transaction_type = "Income"
is_expense(t) == t.transaction_type = "Expense"

total_income(ts) == sum(amounts(SelectSeq(ts, is_income)))

\* A total without the filter on the kind; TotalsPartitionAmounts tells it
\* from total_expense.
total_unfiltered(ts) == sum(amounts(ts))

total_expense(ts) == sum(amounts(SelectSeq(ts, is_expense)))

\* The two totals added; NetBalanceIsIncomeMinusExpense tells it from
\* net_balance.
net_balance_added(ts) == total_income(ts) + total_expense(ts)

net_balance(ts) == total_income(ts) - total_expense(ts)

\* f64 division, as the ratio of its operands; 0.0 is the ratio 0/1
f64_div(a, b) == [num |-> a, den |-> b]

\* The mean without the guard for the empty list; AverageIsMean tells it
\* from average_transaction.
average_unguarded(ts) == f64_div(sum(amounts(ts)), Len(ts))

average_transaction(ts) ==
    IF ts = <<>> THEN [num |-> 0, den |-> 1]
    ELSE f64_div(sum(amounts(ts)), Len(ts))

category_breakdown == category_totals

get_transactions == transactions

---------------------------------------------------------------------------
(* The lines stdin delivers at each prompt *)

NL == "\n"

MenuLines ==
    { <<"1", NL>>, <<"2", NL>>, <<"3", NL>>, <<"4", NL>>, <<"5", NL>>,
      <<" ", "2", NL>>, <<"x", NL>>, <<NL>> }

DescriptionLines == { <<"R", "e", "n", "t", NL>> }

AmountLines ==
    { <<"2", NL>>, <<"-", "1", NL>>, <<"2", ".", "0", NL>>,
      <<"a", "b", "c", NL>>, <<"-", NL>>, <<NL>> }

RecurringLines == { <<"Y", "e", "s", NL>> }

DateLines == { <<"2", "0", "2", "4", "-", "0", "1", "-", "0", "1", NL>> }

TypeLines ==
    { <<"i", "n", "c", "o", "m", "e", NL>>,
      <<"I", "n", "c", "o", "m", "e", NL>>,
      <<"I", "N", "C", "O", "M", "E", NL>>,
      <<"e", "x", "p", "e", "n", "s", "e", NL>>,
      <<"E", "X", "P", "E", "N", "S", "E", NL>>,
      <<"i", "N", "c", "O", "m", "E", NL>>,
      <<"i", "n", "c", "o", "m", "e", "s", NL>>,
      <<"i", "n", "c", NL>>,
      <<NL>> }

CategoryLines == { <<"F", "o", "o", "d", NL>>, <<"W", "o", "r", "k", NL>> }

---------------------------------------------------------------------------
(* The program *)

\* FinanceTracker::new() and the entry of main()
Init ==
    /\ transactions = <<>>
    /\ category_totals = <<>>
    /\ unique_categories = {}
    /\ next_id = 1
    /\ pc = "menu"
    /\ input = <<>>
    /\ description = <<>>
    /\ amount = 0
    /\ is_recurring = FALSE
    /\ date = <<>>
    /\ transaction_type = "Expense"
    /\ overflow_checks \in BOOLEAN

\* the locals of add_transaction_interactive() go out of scope
DropLocals ==
    /\ description' = <<>>
    /\ amount' = 0
    /\ is_recurring' = FALSE
    /\ date' = <<>>
    /\ transaction_type' = "Expense"

\* FinanceTracker::add_transaction; a panic of the increment ends the process
\* after the transaction is pushed and the totals are updated.
add_transaction(description_, amount_, is_recurring_, date_, type_, category_) ==
    LET transaction == Transaction(next_id, description_, amount_, is_recurring_,
                                   date_, type_, category_)
        incremented == add_assign_1(next_id, overflow_checks)
    IN  /\ transactions' = push(transactions, transaction)
        /\ category_totals' =
               entry_and_modify_or_insert(category_totals, category_, amount_)
        /\ unique_categories' = insert(unique_categories, category_)
        /\ next_id' = incremented.value
        /\ pc' = IF incremented.panic THEN "panicked" ELSE "menu"

\* main: the choice "1" enters add_transaction_interactive
ChooseAdd ==
    /\ pc = "menu"
    /\ Len(transactions) < MaxTx
    /\ \E line \in MenuLines :
          /\ get_user_input(line) = <<"1">>
          /\ input' = get_user_input(line)
    /\ pc' = "description"
    /\ UNCHANGED <<tracker, locals, overflow_checks>>

\* main: the choice "2", display_summary
ChooseSummary ==
    /\ pc = "menu"
    /\ \E line \in MenuLines :
          /\ get_user_input(line) = <<"2">>
          /\ input' = get_user_input(line)
    /\ pc' = "menu"
    /\ UNCHANGED <<tracker, locals, overflow_checks>>

\* main: the choice "3", display_category_report
ChooseCategoryReport ==
    /\ pc = "menu"
    /\ \E line \in MenuLines :
          /\ get_user_input(line) = <<"3">>
          /\ input' = get_user_input(line)
    /\ pc' = "menu"
    /\ UNCHANGED <<tracker, locals, overflow_checks>>

\* main: the choice "4", display_all_transactions
ChooseAllTransactions ==
    /\ pc = "menu"
    /\ \E line \in MenuLines :
          /\ get_user_input(line) = <<"4">>
          /\ input' = get_user_input(line)
    /\ pc' = "menu"
    /\ UNCHANGED <<tracker, locals, overflow_checks>>

\* main: the choice "5" leaves the loop
ChooseQuit ==
    /\ pc = "menu"
    /\ \E line \in MenuLines :
          /\ get_user_input(line) = <<"5">>
          /\ input' = get_user_input(line)
    /\ pc' = "done"
    /\ UNCHANGED <<tracker, locals, overflow_checks>>

\* main: any other choice
ChooseInvalid ==
    /\ pc = "menu"
    /\ \E line \in MenuLines :
          /\ get_user_input(line) \notin {<<"1">>, <<"2">>, <<"3">>, <<"4">>, <<"5">>}
          /\ input' = get_user_input(line)
    /\ pc' = "menu"
    /\ UNCHANGED <<tracker, locals, overflow_checks>>

\* add_transaction_interactive: "Enter description: "
EnterDescription ==
    /\ pc = "description"
    /\ \E line \in DescriptionLines :
          /\ input' = get_user_input(line)
          /\ description' = get_user_input(line)
    /\ pc' = "amount"
    /\ UNCHANGED <<tracker, amount, is_recurring, date, transaction_type,
                   overflow_checks>>

\* A prompt that does not loop: the flow goes on whatever the text;
\* AmountIsParsedBeforeAdd tells it from the loop of the code.
amount_no_retry(result) == [pc |-> "recurring", amount |-> result.value]

\* the arms of the match on parse_amount(&input) in the amount loop
amount_loop(result) ==
    IF result.ok
    THEN [pc |-> "recurring", amount |-> result.value]
    ELSE [pc |-> "amount", amount |-> amount]

\* add_transaction_interactive: one round of the "Enter amount: " loop
EnterAmount ==
    /\ pc = "amount"
    /\ \E line \in AmountLines :
          LET next == amount_loop(parse_amount(get_user_input(line))) IN
          /\ input' = get_user_input(line)
          /\ amount' = next.amount
          /\ pc' = next.pc
    /\ UNCHANGED <<tracker, description, is_recurring, date, transaction_type,
                   overflow_checks>>

\* add_transaction_interactive: "Is this recurring? (yes/no): "
EnterRecurring ==
    /\ pc = "recurring"
    /\ \E line \in RecurringLines :
          /\ input' = get_user_input(line)
          /\ is_recurring' = parse_bool(get_user_input(line))
    /\ pc' = "date"
    /\ UNCHANGED <<tracker, description, amount, date, transaction_type,
                   overflow_checks>>

\* add_transaction_interactive: "Enter date (YYYY-MM-DD): "
EnterDate ==
    /\ pc = "date"
    /\ \E line \in DateLines :
          /\ input' = get_user_input(line)
          /\ date' = get_user_input(line)
    /\ pc' = "type"
    /\ UNCHANGED <<tracker, description, amount, is_recurring, transaction_type,
                   overflow_checks>>

\* add_transaction_interactive: "Enter type (income/expense): "
EnterType ==
    /\ pc = "type"
    /\ \E line \in TypeLines :
          /\ input' = get_user_input(line)
          /\ transaction_type' = TransactionType_from(get_user_input(line))
    /\ pc' = "category"
    /\ UNCHANGED <<tracker, description, amount, is_recurring, date,
                   overflow_checks>>

\* add_transaction_interactive: "Enter category: ", then the call of
\* tracker.add_transaction and the return to the menu loop
EnterCategory ==
    /\ pc = "category"
    /\ \E line \in CategoryLines :
          /\ input' = get_user_input(line)
          /\ add_transaction(description, amount, is_recurring, date,
                             transaction_type, get_user_input(line))
    /\ DropLocals
    /\ UNCHANGED overflow_checks

Next ==
    \/ ChooseAdd
    \/ ChooseSummary
    \/ ChooseCategoryReport
    \/ ChooseAllTransactions
    \/ ChooseQuit
    \/ ChooseInvalid
    \/ EnterDescription
    \/ EnterAmount
    \/ EnterRecurring
    \/ EnterDate
    \/ EnterType
    \/ EnterCategory

Spec == Init /\ [][Next]_vars

---------------------------------------------------------------------------
(* Reference definitions for the properties *)

\* The sum of the amounts of the transactions at the positions S of ts.
RECURSIVE SumAt(_, _)
SumAt(S, ts) ==
    IF S = {} THEN 0
    ELSE LET i == CHOOSE j \in S : TRUE
         IN  ts[i].amount + SumAt(S \ {i}, ts)

Positions == 1..Len(transactions)
PositionsOfCategory(c) == {i \in Positions : transactions[i].category = c}
PositionsOfKind(k) == {i \in Positions : transactions[i].transaction_type = k}
CategoriesAdded == {transactions[i].category : i \in Positions}

Food == <<"F", "o", "o", "d">>
Work == <<"W", "o", "r", "k">>

UpperOf(c) ==
    CASE c = "i" -> "I" [] c = "n" -> "N" [] c = "c" -> "C" [] c = "o" -> "O"
      [] c = "m" -> "M" [] c = "e" -> "E" [] c = "x" -> "X" [] c = "p" -> "P"
      [] c = "s" -> "S"

\* s equals the lower-case word w when letter case is ignored
EqualsIgnoringCase(s, w) ==
    /\ Len(s) = Len(w)
    /\ \A i \in 1..Len(w) : s[i] = w[i] \/ s[i] = UpperOf(w[i])

\* The amount texts of the model that denote a number, with the number.
NumberOf ==
    (<<"2">> :> 2) @@ (<<"-", "1">> :> (0 - 1)) @@ (<<"2", ".", "0">> :> 2)

---------------------------------------------------------------------------
(* C1 *)

\* C1: for every category c passed to add_transaction, category_breakdown()[c]
\* is the signed sum of the amounts of the recorded transactions of category
\* c, of both kinds, and the mapping has no key for any other category.
CategoryTotalsAreSums ==
    /\ DOMAIN category_breakdown = CategoriesAdded
    /\ \A c \in CategoriesAdded :
          category_breakdown[c] = SumAt(PositionsOfCategory(c), transactions)

\* A category holding an Income and an Expense of different amounts, beside
\* a second category.
CategoryTotalsWitness ==
    /\ CategoriesAdded = {Food, Work}
    /\ \E i, j \in PositionsOfCategory(Food) :
          /\ transactions[i].transaction_type = "Income"
          /\ transactions[j].transaction_type = "Expense"
          /\ transactions[i].amount # transactions[j].amount

---------------------------------------------------------------------------
(* C2 *)

\* C2: the transaction at 1-based position k has id k, so the first id is 1,
\* ids strictly increase in insertion order and no two transactions share one.
IdIsInsertionRank ==
    /\ \A k \in Positions : transactions[k].id = k
    /\ \A j, k \in Positions :
          j < k => transactions[j].id < transactions[k].id

---------------------------------------------------------------------------
(* C3 *)

\* C3: total_income() is the sum of the amounts of the Income transactions,
\* total_expense() that of the Expense transactions, the two add up to the
\* sum over all transactions, and both are 0 on an empty ledger.
TotalsPartitionAmounts ==
    /\ total_income(transactions) = SumAt(PositionsOfKind("Income"), transactions)
    /\ total_expense(transactions) = SumAt(PositionsOfKind("Expense"), transactions)
    /\ total_income(transactions) + total_expense(transactions)
          = SumAt(Positions, transactions)
    /\ transactions = <<>> =>
          total_income(transactions) = 0 /\ total_expense(transactions) = 0

\* Both kinds recorded, with totals that differ and are not 0.
TotalsPartitionWitness ==
    /\ Len(transactions) >= 3
    /\ PositionsOfKind("Income") # {}
    /\ PositionsOfKind("Expense") # {}
    /\ total_income(transactions) # total_expense(transactions)
    /\ total_income(transactions) # 0
    /\ total_expense(transactions) # 0

---------------------------------------------------------------------------
(* C4 *)

\* C4: the ledger changes only in the step that performs add_transaction, and
\* that step appends one transaction and leaves the recorded ones in place;
\* the menu choices 2, 3, 4 and any unrecognized choice leave the ledger
\* unchanged and lead back to the menu prompt.
LedgerIsAppendOnly ==
    [][ /\ tracker' # tracker =>
              /\ pc = "category"
              /\ Len(transactions') = Len(transactions) + 1
              /\ SubSeq(transactions', 1, Len(transactions)) = transactions
        /\ (pc = "menu" /\ input' \notin {<<"1">>, <<"5">>}) =>
              /\ tracker' = tracker
              /\ pc' = "menu"
      ]_vars

\* Back at the menu after an unrecognized choice, with transactions of
\* different content recorded.
LedgerIsAppendOnlyWitness ==
    /\ pc = "menu"
    /\ input = <<"x">>
    /\ Len(transactions) >= 2
    /\ transactions[1].amount # transactions[2].amount

---------------------------------------------------------------------------
(* C5 *)

\* C5: an amount text that is no number leaves the ledger unchanged and leads
\* to another amount prompt; a text that is a number sets the amount to that
\* number; add_transaction is called once per completed flow, after the
\* amount has parsed, with the parsed amount.
AmountIsParsedBeforeAdd ==
    [][ /\ (pc = "amount" /\ input' \notin DOMAIN NumberOf) =>
              /\ pc' = "amount"
              /\ tracker' = tracker
        /\ (pc = "amount" /\ input' \in DOMAIN NumberOf) =>
              /\ pc' = "recurring"
              /\ amount' = NumberOf[input']
              /\ tracker' = tracker
        /\ pc \in {"recurring", "date", "type"} =>
              /\ amount' = amount
              /\ tracker' = tracker
        /\ pc = "category" =>
              /\ Len(transactions') = Len(transactions) + 1
              /\ transactions'[Len(transactions')].amount = amount
        /\ Len(transactions') # Len(transactions) => pc = "category"
      ]_vars

\* At the amount prompt again after a text that is no number, in a flow that
\* follows a completed one.
AmountRepromptWitness ==
    /\ pc = "amount"
    /\ input = <<"a", "b", "c">>
    /\ Len(transactions) >= 1
    /\ transactions[1].amount = 0 - 1

---------------------------------------------------------------------------
(* C6 *)

\* C6: add_transaction completes without error and leaves next_id one greater
\* than the id it assigned, also at the largest value of the counter.
AddNeverFailsNorWraps ==
    /\ pc # "panicked"
    /\ transactions # <<>> =>
          next_id = transactions[Len(transactions)].id + 1

---------------------------------------------------------------------------
(* C7 *)

\* C7: the text-to-kind conversion maps every text equal to "income" ignoring
\* case to Income and every other text, "expense" in any case and the empty
\* text included, to Expense.
KindOfTextIsCaseInsensitive ==
    pc = "category" =>
        /\ EqualsIgnoringCase(input, income_lit) => transaction_type = "Income"
        /\ EqualsIgnoringCase(input, expense_lit) => transaction_type = "Expense"
        /\ ~EqualsIgnoringCase(input, income_lit) => transaction_type = "Expense"

\* The kind text "INCOME" has been converted.
KindOfTextWitness ==
    /\ pc = "category"
    /\ input = <<"I", "N", "C", "O", "M", "E">>
    /\ transaction_type = "Income"

---------------------------------------------------------------------------
(* C8 *)

\* C8: average_transaction() is 0.0 on an empty ledger, and on n >= 1
\* transactions the sum of all amounts, of either kind, divided by n.
AverageIsMean ==
    LET a == average_transaction(transactions)
        n == Len(transactions)
    IN  /\ a.den # 0
        /\ n = 0 => a.num = 0
        /\ n >= 1 => a.num * n = SumAt(Positions, transactions) * a.den

\* Transactions of both kinds whose mean is no integer.
AverageWitness ==
    /\ Len(transactions) = 2
    /\ PositionsOfKind("Income") # {}
    /\ PositionsOfKind("Expense") # {}
    /\ SumAt(Positions, transactions) = 1

---------------------------------------------------------------------------
(* C9 *)

\* C9: net_balance() is the sum of the amounts of the Income transactions
\* minus the sum of the amounts of the Expense transactions, the amounts
\* taken as stored.
NetBalanceIsIncomeMinusExpense ==
    net_balance(transactions) =
        SumAt(PositionsOfKind("Income"), transactions)
            - SumAt(PositionsOfKind("Expense"), transactions)

\* An Income beside an Expense stored with a negative amount.
NetBalanceWitness ==
    /\ PositionsOfKind("Income") # {}
    /\ \E i \in PositionsOfKind("Expense") : transactions[i].amount < 0
    /\ net_balance(transactions) = 3

---------------------------------------------------------------------------
(* C10 *)

\* C10: unique_categories, the keys of category_totals and the categories of
\* the transaction list are the same set, and next_id is the number of
\* recorded transactions plus 1.
StructuresAgree ==
    /\ unique_categories = DOMAIN category_totals
    /\ unique_categories = CategoriesAdded
    /\ next_id = Len(transactions) + 1

=============================================================================
